---- MODULE Spec2Model ----
(***************************************************************************)
(* Model of the Cloud 9 Pastries backend (src/server.js): the order and    *)
(* product request handlers, the upload adapter that assigns asset         *)
(* handles, the asset-store deletion calls and the email sends, over a     *)
(* document store with two collections.                                    *)
(*                                                                         *)
(* Text that the code converts (price/total through Number, options        *)
(* through split/trim, cart through JSON.parse) is a sequence of tokens,   *)
(* so that each conversion is computed.  A request body is a record whose  *)
(* DOMAIN is the set of supplied fields: a field that is undefined in      *)
(* JavaScript is a field outside the DOMAIN.                               *)
(***************************************************************************)
EXTENDS Integers, Sequences, FiniteSets, TLC

\* ------------------------------------------------------------------ bounds
MaxReq == 2        \* request slots: requests that can be in flight together
MaxId == 2         \* documents the store ever assigns an identifier to
MaxClock == 1      \* largest value Date.now() takes (values 0..MaxClock)
MaxUploads == 2    \* uploads the adapter performs

Reqs == 1..MaxReq
Ids == 1..MaxId

\* --------------------------------------------------------- text conversions
DigitChars == <<"0", "1", "2", "3", "4", "5", "6", "7", "8", "9">>

IsDigit(c) == \E i \in 1..10 : DigitChars[i] = c

DigitVal(c) == (CHOOSE i \in 1..10 : DigitChars[i] = c) - 1

\* the value Number() gives for text that is no numeral
NaN == -1

RECURSIVE DigitsValue(_)
DigitsValue(s) ==
  IF s = <<>> THEN 0
  ELSE 10 * DigitsValue(SubSeq(s, 1, Len(s) - 1)) + DigitVal(s[Len(s)])

\* Number(text): the empty string is 0, a decimal numeral is its value,
\* anything else is NaN
Number(s) ==
  IF \A i \in 1..Len(s) : IsDigit(s[i]) THEN DigitsValue(s) ELSE NaN

\* String(n) for a non-negative integer: its decimal numeral
RECURSIVE NumberToString(_)
NumberToString(n) ==
  IF n < 10 THEN <<DigitChars[n + 1]>>
  ELSE NumberToString(n \div 10) \o <<DigitChars[(n % 10) + 1]>>

\* text.split(","): the pieces between the commas (always at least one piece)
RECURSIVE SplitComma(_)
SplitComma(s) ==
  IF \A i \in 1..Len(s) : s[i] # ","
  THEN <<s>>
  ELSE LET k == CHOOSE i \in 1..Len(s) :
                  s[i] = "," /\ \A j \in 1..(i - 1) : s[j] # ","
       IN <<SubSeq(s, 1, k - 1)>> \o SplitComma(SubSeq(s, k + 1, Len(s)))

\* o.trim(): leading and trailing blanks removed
RECURSIVE Trim(_)
Trim(s) ==
  IF s = <<>> THEN s
  ELSE IF s[1] = " " THEN Trim(Tail(s))
  ELSE IF s[Len(s)] = " " THEN Trim(SubSeq(s, 1, Len(s) - 1))
  ELSE s

\* options.split(",").map(o => o.trim())
SplitOptions(s) ==
  LET parts == SplitComma(s) IN [i \in 1..Len(parts) |-> Trim(parts[i])]

\* JSON text is a sequence of tokens: "[" "]" "," "null", a token for an
\* object literal, and anything else is no JSON token.
ObjectTokens == {"{cake}", "{tart}"}

JSONNull == [type |-> "null"]

JSONObject(tok) ==
  IF tok = "{cake}"
  THEN [type |-> "object", name |-> "cake", quantity |-> 1, price |-> 50]
  ELSE [type |-> "object", name |-> "tart", quantity |-> 2, price |-> 35]

IsJSONValueToken(tok) == tok \in ObjectTokens \/ tok = "null"

JSONValue(tok) == IF tok = "null" THEN JSONNull ELSE JSONObject(tok)

\* the elements between the brackets: value ("," value)*
RECURSIVE IsJSONElements(_)
IsJSONElements(s) ==
  \/ Len(s) = 1 /\ IsJSONValueToken(s[1])
  \/ /\ Len(s) >= 3
     /\ IsJSONValueToken(s[1])
     /\ s[2] = ","
     /\ IsJSONElements(SubSeq(s, 3, Len(s)))

RECURSIVE JSONElements(_)
JSONElements(s) ==
  IF Len(s) = 1 THEN <<JSONValue(s[1])>>
  ELSE <<JSONValue(s[1])>> \o JSONElements(SubSeq(s, 3, Len(s)))

SyntaxError == [type |-> "SyntaxError"]

\* JSON.parse(text)
JSONParse(s) ==
  IF Len(s) = 1 /\ IsJSONValueToken(s[1]) THEN JSONValue(s[1])
  ELSE IF Len(s) >= 2 /\ s[1] = "[" /\ s[Len(s)] = "]"
  THEN LET inner == SubSeq(s, 2, Len(s) - 1)
       IN IF inner = <<>> THEN [type |-> "array", items |-> <<>>]
          ELSE IF IsJSONElements(inner)
          THEN [type |-> "array", items |-> JSONElements(inner)]
          ELSE SyntaxError
  ELSE SyntaxError

\* JSON.stringify of a parsed value, as the token sequence
JSONToken(v) ==
  IF v.type = "null" THEN "null"
  ELSE CHOOSE tok \in ObjectTokens : JSONObject(tok) = v

RECURSIVE JSONJoin(_)
JSONJoin(items) ==
  IF items = <<>> THEN <<>>
  ELSE IF Len(items) = 1 THEN <<JSONToken(items[1])>>
  ELSE <<JSONToken(items[1]), ",">> \o JSONJoin(Tail(items))

JSONStringify(v) ==
  IF v.type = "array" THEN <<"[">> \o JSONJoin(v.items) \o <<"]">>
  ELSE <<JSONToken(v)>>


\* ------------------------------------------------------------------- state
VARIABLES
  orders,        \* the orders collection: identifier -> document
  products,      \* the products collection: identifier -> document
  nextId,        \* the next identifier the store assigns
  clock,         \* the value of Date.now()
  uploads,       \* asset store: handle -> number of uploads made under it
  destroyCalls,  \* asset store: handles a deletion call was issued for
  reqs           \* request slot -> the request's position, locals, response

vars == <<orders, products, nextId, clock, uploads, destroyCalls, reqs>>

store == <<orders, products>>

\* record b laid over record a
Merge(a, b) ==
  [f \in (DOMAIN a) \cup (DOMAIN b) |-> IF f \in DOMAIN b THEN b[f] ELSE a[f]]

Insert(coll, id, doc) ==
  [i \in (DOMAIN coll) \cup {id} |-> IF i = id THEN doc ELSE coll[i]]

Remove(coll, id) == [i \in (DOMAIN coll) \ {id} |-> coll[i]]

\* record b without the fields of S
Without(b, S) == [f \in (DOMAIN b) \ S |-> b[f]]

Restrict(b, S) == [f \in (DOMAIN b) \cap S |-> b[f]]

Idle == [pc |-> "idle"]

\* a slot takes a new request when no request occupies it
Free(r) == reqs[r].pc \in {"idle", "done"}

Done(r, op) == reqs[r].pc = "done" /\ reqs[r].op = op

\* ---------------------------------------------------------- upload adapter
Fieldnames == {"image", "screenshot"}

Handles == Fieldnames \X (0..MaxClock)

\* public_id = `${file.fieldname}_${timestamp}`
PublicId(fieldname, timestamp) == <<fieldname, timestamp>>

UploadCount ==
  LET RECURSIVE Sum(_)
      Sum(S) == IF S = {} THEN 0
                ELSE LET h == CHOOSE x \in S : TRUE
                     IN uploads[h] + Sum(S \ {h})
  IN Sum(Handles)

\* upload.single(fieldname): req.file of a request that carries a file
UploadedFile(fieldname) ==
  LET public_id == PublicId(fieldname, clock)
  IN [path |-> <<"cloud9pastries", public_id>>, filename |-> public_id]

CanUpload(hasFile) == hasFile => UploadCount < MaxUploads

Upload(fieldname, hasFile) ==
  uploads' = IF hasFile
             THEN [uploads EXCEPT ![PublicId(fieldname, clock)] = @ + 1]
             ELSE uploads

\* cloudinary.uploader.destroy(handle, callback)
Destroy(handle) == destroyCalls' = destroyCalls \cup {handle}

Init ==
  /\ orders = <<>>
  /\ products = <<>>
  /\ nextId = 1
  /\ clock = 0
  /\ uploads = [h \in Handles |-> 0]
  /\ destroyCalls = {}
  /\ reqs = [r \in Reqs |-> Idle]

\* Date.now() advances between events
Tick ==
  /\ clock < MaxClock
  /\ clock' = clock + 1
  /\ UNCHANGED <<orders, products, nextId, uploads, destroyCalls, reqs>>

\* ------------------------------------------------------------ order routes
\* GET /api/orders/:id
GetOrder(r, id) ==
  /\ Free(r)
  /\ \E dbOk \in BOOLEAN :
       reqs' = [reqs EXCEPT ![r] =
         IF ~dbOk
         THEN [pc |-> "done", op |-> "getOrder", id |-> id, lookup |-> "error",
               res |-> [status |-> 500, success |-> FALSE]]
         ELSE IF id \notin DOMAIN orders
         THEN [pc |-> "done", op |-> "getOrder", id |-> id, lookup |-> "null",
               res |-> [status |-> 404, success |-> FALSE]]
         ELSE [pc |-> "done", op |-> "getOrder", id |-> id, lookup |-> "doc",
               res |-> [status |-> 200, success |-> TRUE, order |-> orders[id]]]]
  /\ UNCHANGED <<orders, products, nextId, clock, uploads, destroyCalls>>

\* DELETE /api/orders/:id
DeleteOrder(r, id) ==
  /\ Free(r)
  /\ \E dbOk \in BOOLEAN :
       IF ~dbOk
       THEN /\ reqs' = [reqs EXCEPT ![r] =
                 [pc |-> "done", op |-> "deleteOrder", id |-> id,
                  lookup |-> "error", destroys |-> <<>>,
                  res |-> [status |-> 500, success |-> FALSE]]]
            /\ UNCHANGED <<orders, destroyCalls>>
       ELSE IF id \notin DOMAIN orders
       THEN /\ reqs' = [reqs EXCEPT ![r] =
                 [pc |-> "done", op |-> "deleteOrder", id |-> id,
                  lookup |-> "null", destroys |-> <<>>,
                  res |-> [status |-> 404, success |-> FALSE]]]
            /\ UNCHANGED <<orders, destroyCalls>>
       ELSE LET order == orders[id]
                hasShot == "screenshotPublicId" \in DOMAIN order
            IN /\ orders' = Remove(orders, id)
               /\ IF hasShot THEN Destroy(order.screenshotPublicId)
                  ELSE UNCHANGED destroyCalls
               /\ reqs' = [reqs EXCEPT ![r] =
                    [pc |-> "done", op |-> "deleteOrder", id |-> id,
                     lookup |-> "doc",
                     destroys |-> IF hasShot THEN <<order.screenshotPublicId>>
                                  ELSE <<>>,
                     res |-> [status |-> 200, success |-> TRUE]]]
  /\ UNCHANGED <<products, nextId, clock, uploads>>

\* request bodies of PUT /api/orders/:id/status
StatusBodies == {[status |-> "shipped"], <<>>}

\* PUT /api/orders/:id/status
UpdateOrderStatus(r, id, body) ==
  /\ Free(r)
  /\ \E dbOk \in BOOLEAN :
       IF ~dbOk
       THEN /\ reqs' = [reqs EXCEPT ![r] =
                 [pc |-> "done", op |-> "updateOrderStatus", id |-> id,
                  lookup |-> "error",
                  res |-> [status |-> 500, success |-> FALSE]]]
            /\ UNCHANGED orders
       ELSE /\ orders' = IF id \in DOMAIN orders /\ "status" \in DOMAIN body
                         THEN [orders EXCEPT ![id].status = body.status]
                         ELSE orders
            /\ reqs' = [reqs EXCEPT ![r] =
                 [pc |-> "done", op |-> "updateOrderStatus", id |-> id,
                  lookup |-> IF id \in DOMAIN orders THEN "doc" ELSE "null",
                  res |-> [status |-> 200, success |-> TRUE]]]
  /\ UNCHANGED <<products, nextId, clock, uploads, destroyCalls>>

\* ------------------------------------------------------------- place order
ContactFields ==
  {"fullName", "email", "phone", "address", "landmark", "city", "pincode",
   "paymentMethod"}

EmptyArray == [type |-> "array", items |-> <<>>]

\* OrderData with the landmark field left out of the order
OrderDataNoLandmark(body) ==
  Merge([f \in (ContactFields \ {"landmark"}) \cap DOMAIN body |-> body[f]],
        [cart |-> IF "cart" \in DOMAIN body /\ body.cart # <<>>
                  THEN JSONParse(body.cart) ELSE EmptyArray,
         total |-> IF "total" \in DOMAIN body THEN Number(body.total)
                   ELSE NaN])

\* the orderData object of place-order; a field that is undefined is left out
\* (the store ignores it).  cart: cart ? JSON.parse(cart) : []
OrderData(body) ==
  Merge([f \in ContactFields \cap DOMAIN body |-> body[f]],
        [cart |-> IF "cart" \in DOMAIN body /\ body.cart # <<>>
                  THEN JSONParse(body.cart) ELSE EmptyArray,
         total |-> IF "total" \in DOMAIN body THEN Number(body.total)
                   ELSE NaN])

\* orderData.screenshotUrl / screenshotPublicId, set when req.file exists
ScreenshotFields(hasFile) ==
  IF hasFile
  THEN [screenshotUrl |-> UploadedFile("screenshot").path,
        screenshotPublicId |-> UploadedFile("screenshot").filename]
  ELSE <<>>

\* the cast of a value to the schema type Array: an array is kept, null is
\* kept, any other value becomes a one-element array
CastArray(v) ==
  IF v.type \in {"array", "null"} THEN v
  ELSE [type |-> "array", items |-> <<v>>]

\* new Order(orderData): schema defaults and casts
NewOrder(orderData, id) ==
  Merge([status |-> "pending", createdAt |-> clock],
        Merge(orderData, [_id |-> id, cart |-> CastArray(orderData.cart)]))

\* orderData.cart.map(i => ... i.name ...) evaluates without a TypeError
Mappable(cart) ==
  /\ cart.type = "array"
  /\ \A i \in 1..Len(cart.items) : cart.items[i].type # "null"

\* POST /api/place-order: upload.single('screenshot'), then the handler up to
\* the call of order.save()
PlaceOrderStart(r, body, hasFile) ==
  /\ Free(r)
  /\ CanUpload(hasFile)
  /\ Upload("screenshot", hasFile)
  /\ LET orderData == Merge(OrderData(body), ScreenshotFields(hasFile))
     IN IF orderData.cart = SyntaxError
        THEN /\ reqs' = [reqs EXCEPT ![r] =
                  [pc |-> "done", op |-> "placeOrder", body |-> body,
                   hasFile |-> hasFile, saved |-> FALSE,
                   userMail |-> "none", ownerMail |-> "none",
                   res |-> [status |-> 500, success |-> FALSE]]]
             /\ UNCHANGED nextId
        ELSE /\ nextId <= MaxId
             /\ reqs' = [reqs EXCEPT ![r] =
                  [pc |-> "save", op |-> "placeOrder", body |-> body,
                   hasFile |-> hasFile, saved |-> FALSE,
                   order |-> NewOrder(orderData, nextId),
                   userMail |-> "none", ownerMail |-> "none"]]
             /\ nextId' = nextId + 1
  /\ UNCHANGED <<orders, products, clock, destroyCalls>>

\* await order.save(): a total that is NaN fails the cast to Number
PlaceOrderSave(r) ==
  /\ reqs[r].pc = "save" /\ reqs[r].op = "placeOrder"
  /\ \E dbOk \in BOOLEAN :
       IF dbOk /\ reqs[r].order.total # NaN
       THEN /\ orders' = Insert(orders, reqs[r].order._id, reqs[r].order)
            /\ reqs' = [reqs EXCEPT ![r].pc = "userMail", ![r].saved = TRUE]
       ELSE /\ reqs' = [reqs EXCEPT ![r] =
                 Merge(@, [pc |-> "done",
                           res |-> [status |-> 500, success |-> FALSE]])]
            /\ UNCHANGED orders
  /\ UNCHANGED <<products, nextId, clock, uploads, destroyCalls>>

\* PlaceOrderUserMail without its own try/catch: a failed send reaches the
\* handler's catch
PlaceOrderUserMailUncaught(r) ==
  /\ reqs[r].pc = "userMail"
  /\ \E sendOk \in BOOLEAN :
       reqs' = [reqs EXCEPT ![r] =
         IF sendOk THEN [@ EXCEPT !.pc = "ownerMail", !.userMail = "sent"]
         ELSE Merge(@, [pc |-> "done", userMail |-> "failed",
                        res |-> [status |-> 500, success |-> FALSE]])]
  /\ UNCHANGED <<orders, products, nextId, clock, uploads, destroyCalls>>

\* the confirmation email to the customer, in its own try/catch
PlaceOrderUserMail(r) ==
  /\ reqs[r].pc = "userMail"
  /\ \E sendOk \in BOOLEAN :
       reqs' = [reqs EXCEPT ![r].pc = "ownerMail",
                            ![r].userMail = IF sendOk THEN "sent" ELSE "failed"]
  /\ UNCHANGED <<orders, products, nextId, clock, uploads, destroyCalls>>

\* the notification email to the owner, in its own try/catch, then
\* res.json({ success: true, orderId: order._id })
PlaceOrderOwnerMail(r) ==
  /\ reqs[r].pc = "ownerMail"
  /\ \E sendOk \in BOOLEAN :
       reqs' = [reqs EXCEPT ![r] =
         Merge(@, [pc |-> "done",
                   ownerMail |-> IF ~Mappable(OrderData(reqs[r].body).cart)
                                 THEN "none"
                                 ELSE IF sendOk THEN "sent" ELSE "failed",
                   res |-> [status |-> 200, success |-> TRUE,
                            orderId |-> reqs[r].order._id]])]
  /\ UNCHANGED <<orders, products, nextId, clock, uploads, destroyCalls>>

\* ----------------------------------------------------------------- contact
\* !x for a text field of a body: undefined or the empty string
Missing(body, f) == f \notin DOMAIN body \/ body[f] = ""

\* POST /api/contact
Contact(r, body, sendOk) ==
  /\ Free(r)
  /\ reqs' = [reqs EXCEPT ![r] =
       IF Missing(body, "name") \/ Missing(body, "email")
          \/ Missing(body, "message")
       THEN [pc |-> "done", op |-> "contact", body |-> body, mail |-> "none",
             res |-> [status |-> 400, success |-> FALSE]]
       ELSE IF sendOk
       THEN [pc |-> "done", op |-> "contact", body |-> body, mail |-> "sent",
             res |-> [status |-> 200, success |-> TRUE]]
       ELSE [pc |-> "done", op |-> "contact", body |-> body, mail |-> "failed",
             res |-> [status |-> 500, success |-> FALSE]]]
  /\ UNCHANGED <<orders, products, nextId, clock, uploads, destroyCalls>>

\* ---------------------------------------------------------- product routes
\* GET /api/products/:id
GetProduct(r, id) ==
  /\ Free(r)
  /\ \E dbOk \in BOOLEAN :
       reqs' = [reqs EXCEPT ![r] =
         IF ~dbOk
         THEN [pc |-> "done", op |-> "getProduct", id |-> id,
               lookup |-> "error",
               res |-> [status |-> 500, success |-> FALSE]]
         ELSE IF id \notin DOMAIN products
         THEN [pc |-> "done", op |-> "getProduct", id |-> id, lookup |-> "null",
               res |-> [status |-> 404, success |-> FALSE]]
         ELSE [pc |-> "done", op |-> "getProduct", id |-> id, lookup |-> "doc",
               res |-> [status |-> 200, success |-> TRUE,
                        product |-> products[id]]]]
  /\ UNCHANGED <<orders, products, nextId, clock, uploads, destroyCalls>>

\* !x for a field holding converted text: undefined or the empty string
MissingText(body, f) == f \notin DOMAIN body \/ body[f] = <<>>

\* product.imageUrl / imagePublicId, set when req.file exists
ImageFields(file) ==
  [imageUrl |-> file.path, imagePublicId |-> file.filename]

\* new Product({...}) of create-product: x || '' defaults, Number(price),
\* the split options, and the schema defaults
NewProduct(body, id) ==
  Merge(Restrict(body, {"name"}),
        [_id |-> id,
         description |-> IF Missing(body, "description") THEN ""
                         ELSE body.description,
         price |-> IF "price" \in DOMAIN body THEN Number(body.price)
                   ELSE NaN,
         category |-> IF Missing(body, "category") THEN "" ELSE body.category,
         options |-> IF MissingText(body, "options") THEN <<>>
                     ELSE SplitOptions(body.options),
         available |-> TRUE,
         createdAt |-> clock])

\* CreateRejects testing the name only
CreateRejectsNameOnly(body) == Missing(body, "name")

\* if (!name || !price) of create-product
CreateRejects(body) == Missing(body, "name") \/ MissingText(body, "price")

\* POST /api/products: upload.single('image'), then the handler
CreateProduct(r, body, hasFile) ==
  /\ Free(r)
  /\ CanUpload(hasFile)
  /\ Upload("image", hasFile)
  /\ IF CreateRejects(body)
     THEN /\ reqs' = [reqs EXCEPT ![r] =
               [pc |-> "done", op |-> "createProduct", body |-> body,
                hasFile |-> hasFile,
                res |-> [status |-> 400, success |-> FALSE]]]
          /\ UNCHANGED <<products, nextId>>
     ELSE /\ nextId <= MaxId
          /\ nextId' = nextId + 1
          /\ LET product == IF hasFile
                            THEN Merge(NewProduct(body, nextId),
                                       ImageFields(UploadedFile("image")))
                            ELSE NewProduct(body, nextId)
             IN \E dbOk \in BOOLEAN :
                  IF dbOk /\ product.price # NaN
                  THEN /\ products' = Insert(products, nextId, product)
                       /\ reqs' = [reqs EXCEPT ![r] =
                            [pc |-> "done", op |-> "createProduct",
                             body |-> body, hasFile |-> hasFile,
                             res |-> [status |-> 200, success |-> TRUE,
                                      product |-> product]]]
                  ELSE /\ reqs' = [reqs EXCEPT ![r] =
                            [pc |-> "done", op |-> "createProduct",
                             body |-> body, hasFile |-> hasFile,
                             res |-> [status |-> 500, success |-> FALSE]]]
                       /\ UNCHANGED products
  /\ UNCHANGED <<orders, clock, destroyCalls>>

\* BuildUpdate with the description defaulted as in create-product
\* (description || '')
BuildUpdateDefaultDescription(body) ==
  Merge([description |-> ""],
        [f \in (DOMAIN body)
               \cap {"name", "description", "price", "category", "options",
                     "available"} |->
           IF f = "price" THEN Number(body.price)
           ELSE IF f = "options" THEN SplitOptions(body.options)
           ELSE IF f = "available" THEN body.available = "true"
           ELSE body[f]])

\* the update object update-product builds from the supplied body fields
BuildUpdate(body) ==
  [f \in (DOMAIN body)
         \cap {"name", "description", "price", "category", "options",
               "available"} |->
     IF f = "price" THEN Number(body.price)
     ELSE IF f = "options" THEN SplitOptions(body.options)
     ELSE IF f = "available" THEN body.available = "true"
     ELSE body[f]]

\* PUT /api/products/:id: upload.single('image'), then the handler up to the
\* call of Product.findById
UpdateProductStart(r, id, body, hasFile) ==
  /\ Free(r)
  /\ CanUpload(hasFile)
  /\ Upload("image", hasFile)
  /\ reqs' = [reqs EXCEPT ![r] =
       [pc |-> "find", op |-> "updateProduct", id |-> id, body |-> body,
        update |-> BuildUpdate(body), hasFile |-> hasFile,
        file |-> IF hasFile THEN UploadedFile("image") ELSE <<>>,
        destroys |-> <<>>]]
  /\ UNCHANGED <<orders, products, nextId, clock, destroyCalls>>

\* the record of a finished update-product request
UpdateProductDone(req, lookup, destroys, res) ==
  [pc |-> "done", op |-> "updateProduct", id |-> req.id,
   hasFile |-> req.hasFile, lookup |-> lookup, destroys |-> destroys,
   res |-> res]

\* UpdateProductFind issuing the deletion call for the handle of the new file
UpdateProductFindDestroysNew(r) ==
  /\ reqs[r].pc = "find"
  /\ \E dbOk \in BOOLEAN :
       IF ~dbOk
       THEN /\ reqs' = [reqs EXCEPT ![r] =
                 UpdateProductDone(@, "error", <<>>,
                                   [status |-> 500, success |-> FALSE])]
            /\ UNCHANGED destroyCalls
       ELSE IF reqs[r].id \notin DOMAIN products
       THEN /\ reqs' = [reqs EXCEPT ![r] =
                 UpdateProductDone(@, "null", <<>>,
                                   [status |-> 404, success |-> FALSE])]
            /\ UNCHANGED destroyCalls
       ELSE LET old == products[reqs[r].id]
                replace == reqs[r].hasFile /\ "imagePublicId" \in DOMAIN old
            IN /\ IF replace THEN Destroy(reqs[r].file.filename)
                  ELSE UNCHANGED destroyCalls
               /\ reqs' = [reqs EXCEPT ![r] =
                    Merge(@, [pc |-> "write", lookup |-> "doc", old |-> old,
                              destroys |-> IF replace
                                           THEN <<reqs[r].file.filename>>
                                           ELSE <<>>,
                              update |-> IF reqs[r].hasFile
                                         THEN Merge(reqs[r].update,
                                                    ImageFields(reqs[r].file))
                                         ELSE reqs[r].update])]
  /\ UNCHANGED <<orders, products, nextId, clock, uploads>>

\* old = await Product.findById(id), the not-found return, the deletion call
\* for the old asset and the new image fields of the update
UpdateProductFind(r) ==
  /\ reqs[r].pc = "find"
  /\ \E dbOk \in BOOLEAN :
       IF ~dbOk
       THEN /\ reqs' = [reqs EXCEPT ![r] =
                 UpdateProductDone(@, "error", <<>>,
                                   [status |-> 500, success |-> FALSE])]
            /\ UNCHANGED destroyCalls
       ELSE IF reqs[r].id \notin DOMAIN products
       THEN /\ reqs' = [reqs EXCEPT ![r] =
                 UpdateProductDone(@, "null", <<>>,
                                   [status |-> 404, success |-> FALSE])]
            /\ UNCHANGED destroyCalls
       ELSE LET old == products[reqs[r].id]
                replace == reqs[r].hasFile /\ "imagePublicId" \in DOMAIN old
            IN /\ IF replace THEN Destroy(old.imagePublicId)
                  ELSE UNCHANGED destroyCalls
               /\ reqs' = [reqs EXCEPT ![r] =
                    Merge(@, [pc |-> "write", lookup |-> "doc", old |-> old,
                              destroys |-> IF replace
                                           THEN <<old.imagePublicId>>
                                           ELSE <<>>,
                              update |-> IF reqs[r].hasFile
                                         THEN Merge(reqs[r].update,
                                                    ImageFields(reqs[r].file))
                                         ELSE reqs[r].update])]
  /\ UNCHANGED <<orders, products, nextId, clock, uploads>>

Null == [null |-> TRUE]

\* updated = await Product.findByIdAndUpdate(id, update, { new: true }) and
\* the response; a price that is NaN fails the cast of the update
UpdateProductWrite(r) ==
  /\ reqs[r].pc = "write"
  /\ \E dbOk \in BOOLEAN :
       LET id == reqs[r].id
           update == reqs[r].update
           castOk == "price" \in DOMAIN update => update.price # NaN
       IN IF ~dbOk \/ ~castOk
          THEN /\ reqs' = [reqs EXCEPT ![r] =
                    UpdateProductDone(@, "doc", @.destroys,
                                      [status |-> 500, success |-> FALSE])]
               /\ UNCHANGED products
          ELSE IF id \in DOMAIN products
          THEN /\ products' = [products EXCEPT ![id] = Merge(@, update)]
               /\ reqs' = [reqs EXCEPT ![r] =
                    UpdateProductDone(@, "doc", @.destroys,
                                      [status |-> 200, success |-> TRUE,
                                       product |-> Merge(products[id], update)])]
          ELSE /\ reqs' = [reqs EXCEPT ![r] =
                    UpdateProductDone(@, "doc", @.destroys,
                                      [status |-> 200, success |-> TRUE,
                                       product |-> Null])]
               /\ UNCHANGED products
  /\ UNCHANGED <<orders, nextId, clock, uploads, destroyCalls>>

\* DELETE /api/products/:id
DeleteProduct(r, id) ==
  /\ Free(r)
  /\ \E dbOk \in BOOLEAN :
       IF ~dbOk
       THEN /\ reqs' = [reqs EXCEPT ![r] =
                 [pc |-> "done", op |-> "deleteProduct", id |-> id,
                  lookup |-> "error", destroys |-> <<>>,
                  res |-> [status |-> 500, success |-> FALSE]]]
            /\ UNCHANGED <<products, destroyCalls>>
       ELSE IF id \notin DOMAIN products
       THEN /\ reqs' = [reqs EXCEPT ![r] =
                 [pc |-> "done", op |-> "deleteProduct", id |-> id,
                  lookup |-> "null", destroys |-> <<>>,
                  res |-> [status |-> 404, success |-> FALSE]]]
            /\ UNCHANGED <<products, destroyCalls>>
       ELSE LET p == products[id]
                hasImage == "imagePublicId" \in DOMAIN p
            IN /\ products' = Remove(products, id)
               /\ IF hasImage THEN Destroy(p.imagePublicId)
                  ELSE UNCHANGED destroyCalls
               /\ reqs' = [reqs EXCEPT ![r] =
                    [pc |-> "done", op |-> "deleteProduct", id |-> id,
                     lookup |-> "doc",
                     destroys |-> IF hasImage THEN <<p.imagePublicId>>
                                  ELSE <<>>,
                     res |-> [status |-> 200, success |-> TRUE]]]
  /\ UNCHANGED <<orders, nextId, clock, uploads>>

\* Flip putting the product on hold whatever its flag was
FlipToHold(available) == FALSE

\* p.available = !p.available
Flip(available) == ~available

\* PUT /api/products/:id/toggle-hold: p = await Product.findById(id), the
\* not-found return and the flip of the loaded document (read is the flag as
\* findById returned it)
ToggleHoldFind(r, id) ==
  /\ Free(r)
  /\ \E dbOk \in BOOLEAN :
       reqs' = [reqs EXCEPT ![r] =
         IF ~dbOk
         THEN [pc |-> "done", op |-> "toggleHold", id |-> id,
               lookup |-> "error",
               res |-> [status |-> 500, success |-> FALSE]]
         ELSE IF id \notin DOMAIN products
         THEN [pc |-> "done", op |-> "toggleHold", id |-> id,
               lookup |-> "null",
               res |-> [status |-> 200, success |-> FALSE]]
         ELSE [pc |-> "toggleSave", op |-> "toggleHold", id |-> id,
               lookup |-> "doc", read |-> products[id].available,
               p |-> [products[id] EXCEPT !.available = Flip(@)]]]
  /\ UNCHANGED <<orders, products, nextId, clock, uploads, destroyCalls>>

\* await p.save(): writes the modified path (available) of the document, and
\* fails when the document is gone; then the response
ToggleHoldSave(r) ==
  /\ reqs[r].pc = "toggleSave"
  /\ \E dbOk \in BOOLEAN :
       LET id == reqs[r].id
       IN IF dbOk /\ id \in DOMAIN products
          THEN /\ products' =
                    [products EXCEPT ![id].available = reqs[r].p.available]
               /\ reqs' = [reqs EXCEPT ![r] =
                    Merge(@, [pc |-> "done",
                              res |-> [status |-> 200, success |-> TRUE,
                                       available |-> reqs[r].p.available]])]
          ELSE /\ reqs' = [reqs EXCEPT ![r] =
                    Merge(@, [pc |-> "done",
                              res |-> [status |-> 500, success |-> FALSE]])]
               /\ UNCHANGED products
  /\ UNCHANGED <<orders, nextId, clock, uploads, destroyCalls>>

\* ------------------------------------------------------------------ inputs
ContactDetails ==
  [fullName |-> "Asha", email |-> "asha@example.com", phone |-> "98450",
   address |-> "12 MG Road", landmark |-> "near park", city |-> "Pune",
   pincode |-> "411001", paymentMethod |-> "upi"]

CartOfTwo == <<"[", "{cake}", ",", "{tart}", "]">>

CartTexts ==
  {CartOfTwo, <<"[", "null", "]">>, <<"{cake}">>, <<"oops">>,
   <<"[", "{cake}", ",", "]">>}

PlaceOrderBodies ==
  {Merge(ContactDetails, [cart |-> c, total |-> <<"8", "5">>]) : c \in CartTexts}
  \cup {Merge(Without(ContactDetails, {"landmark"}), [total |-> <<"0">>]),
        Merge(ContactDetails, [cart |-> CartOfTwo]),
        Merge(ContactDetails, [cart |-> CartOfTwo, total |-> <<"a">>])}

\* place-order requests: every body without a file, and a valid and a
\* malformed one with a screenshot
PlaceOrderRequests ==
  {[body |-> b, hasFile |-> FALSE] : b \in PlaceOrderBodies}
  \cup {[body |-> Merge(ContactDetails, [cart |-> c, total |-> <<"8", "5">>]),
         hasFile |-> TRUE] : c \in {CartOfTwo, <<"oops">>}}

ContactBody ==
  [name |-> "Ravi", email |-> "ravi@example.com", subject |-> "Cake",
   message |-> "Hello"]

ContactBodies ==
  {ContactBody, Without(ContactBody, {"subject"}),
   Without(ContactBody, {"message"}), [ContactBody EXCEPT !.name = ""]}

ProductBody ==
  [name |-> "Croissant", description |-> "Flaky", price |-> <<"1", "2", "0">>,
   category |-> "pastry", options |-> <<"butter", ",", " ", "chocolate">>]

CreateBodies ==
  {ProductBody, Restrict(ProductBody, {"name", "price"}),
   Without(ProductBody, {"name"}), Without(ProductBody, {"price"}),
   [ProductBody EXCEPT !.name = ""], [ProductBody EXCEPT !.price = <<>>],
   [ProductBody EXCEPT !.price = <<"a">>]}

UpdateBody ==
  [name |-> "Eclair", description |-> "", price |-> <<"9", "5">>,
   category |-> "cake", options |-> <<"plain">>, available |-> "false"]

\* every subset of the body fields of update-product
AllUpdateBodies == {Restrict(UpdateBody, S) : S \in SUBSET DOMAIN UpdateBody}

\* create-product requests: every body without a file, and a complete and
\* a rejected one with an image
CreateRequests ==
  {[body |-> b, hasFile |-> FALSE] : b \in CreateBodies}
  \cup {[body |-> b, hasFile |-> TRUE] :
          b \in {ProductBody, Without(ProductBody, {"name"})}}

\* ---------------------------------------------------------- specifications
\* the slot of a specification that runs one request at a time
Solo == {1}

\* The order routes and the contact route, one request at a time, from the
\* empty store.
NextOrders ==
  \/ \E r \in Solo, id \in Ids : GetOrder(r, id)
  \/ \E r \in Solo, id \in Ids : DeleteOrder(r, id)
  \/ \E r \in Solo, id \in Ids, body \in StatusBodies :
       UpdateOrderStatus(r, id, body)
  \/ \E r \in Solo, req \in PlaceOrderRequests :
       PlaceOrderStart(r, req.body, req.hasFile)
  \/ \E r \in Solo : PlaceOrderSave(r)
  \/ \E r \in Solo : PlaceOrderUserMail(r)
  \/ \E r \in Solo : PlaceOrderOwnerMail(r)
  \/ \E r \in Solo, body \in ContactBodies, sendOk \in BOOLEAN :
       Contact(r, body, sendOk)

SpecOrders == Init /\ [][NextOrders]_vars

\* The product creation and deletion routes with the upload adapter and the
\* clock, one request at a time, from the empty store.
NextCreate ==
  \/ Tick
  \/ \E r \in Solo, req \in CreateRequests :
       CreateProduct(r, req.body, req.hasFile)
  \/ \E r \in Solo, id \in Ids : DeleteProduct(r, id)

SpecCreate == Init /\ [][NextCreate]_vars

\* The store after one create-product of ProductBody with an image at clock 0.
InitUpdate ==
  /\ orders = <<>>
  /\ clock = 0
  /\ products = Insert(<<>>, 1, Merge(NewProduct(ProductBody, 1),
                                      ImageFields(UploadedFile("image"))))
  /\ nextId = 2
  /\ uploads = [h \in Handles |-> IF h = PublicId("image", 0) THEN 1 ELSE 0]
  /\ destroyCalls = {}
  /\ reqs = [r \in Reqs |-> Idle]

\* The product update route with every subset of the body fields, with and
\* without a new image, one request at a time.
NextUpdate ==
  \/ Tick
  \/ \E r \in Solo, id \in Ids, body \in AllUpdateBodies, hasFile \in BOOLEAN :
       UpdateProductStart(r, id, body, hasFile)
  \/ \E r \in Solo : UpdateProductFind(r)
  \/ \E r \in Solo : UpdateProductWrite(r)

SpecUpdate == InitUpdate /\ [][NextUpdate]_vars

\* The products the toggle specification starts from: one available, one on
\* hold.
ToggleProducts ==
  [id \in Ids |->
     [_id |-> id, name |-> "Croissant", description |-> "Flaky",
      price |-> 120, category |-> "pastry",
      options |-> <<<<"butter">>, <<"chocolate">>>>,
      available |-> (id = 1), createdAt |-> 0]]

InitToggle ==
  /\ orders = <<>>
  /\ clock = 0
  /\ products = ToggleProducts
  /\ nextId = MaxId + 1
  /\ uploads = [h \in Handles |-> 0]
  /\ destroyCalls = {}
  /\ reqs = [r \in Reqs |-> Idle]

\* Toggle-hold requests in flight together, each slot taking one request, on
\* the stored products and on an identifier of no document.
NextToggle ==
  \/ \E r \in Reqs, id \in Ids \cup {MaxId + 1} :
       reqs[r].pc = "idle" /\ ToggleHoldFind(r, id)
  \/ \E r \in Reqs : ToggleHoldSave(r)

SpecToggle == InitToggle /\ [][NextToggle]_vars

\* request bodies of the update-product requests that race
RaceBodies == {<<>>, Restrict(UpdateBody, {"name"})}

\* Update-product and delete-product requests in flight together on the
\* product of InitUpdate and on an identifier of no document, each slot
\* taking one request.
NextRace ==
  \/ Tick
  \/ \E r \in Reqs, id \in Ids, body \in RaceBodies, hasFile \in BOOLEAN :
       reqs[r].pc = "idle" /\ UpdateProductStart(r, id, body, hasFile)
  \/ \E r \in Reqs : UpdateProductFind(r)
  \/ \E r \in Reqs : UpdateProductWrite(r)
  \/ \E r \in Reqs, id \in Ids : reqs[r].pc = "idle" /\ DeleteProduct(r, id)

SpecRace == InitUpdate /\ [][NextRace]_vars

\* Every route, one request at a time and without file uploads, from the
\* empty store.
Next ==
  \/ \E r \in Solo, id \in Ids : GetOrder(r, id)
  \/ \E r \in Solo, id \in Ids : DeleteOrder(r, id)
  \/ \E r \in Solo, id \in Ids : UpdateOrderStatus(r, id, [status |-> "shipped"])
  \/ \E r \in Solo, c \in {CartOfTwo, <<"oops">>} :
       PlaceOrderStart(r, Merge(ContactDetails,
                                [cart |-> c, total |-> <<"8", "5">>]), FALSE)
  \/ \E r \in Solo : PlaceOrderSave(r)
  \/ \E r \in Solo : PlaceOrderUserMail(r)
  \/ \E r \in Solo : PlaceOrderOwnerMail(r)
  \/ \E r \in Solo, sendOk \in BOOLEAN : Contact(r, ContactBody, sendOk)
  \/ \E r \in Solo, id \in Ids : GetProduct(r, id)
  \/ \E r \in Solo, body \in {ProductBody, Without(ProductBody, {"price"})} :
       CreateProduct(r, body, FALSE)
  \/ \E r \in Solo, id \in Ids, body \in {<<>>, Restrict(UpdateBody, {"price"})} :
       UpdateProductStart(r, id, body, FALSE)
  \/ \E r \in Solo : UpdateProductFind(r)
  \/ \E r \in Solo : UpdateProductWrite(r)
  \/ \E r \in Solo, id \in Ids : DeleteProduct(r, id)
  \/ \E r \in Solo, id \in Ids : ToggleHoldFind(r, id)
  \/ \E r \in Solo : ToggleHoldSave(r)

Spec == Init /\ [][Next]_vars

\* ------------------------------------------------------------------ claims
\* the cart field of the body is text that is not JSON
MalformedCart(body) ==
  /\ "cart" \in DOMAIN body
  /\ body.cart # <<>>
  /\ JSONParse(body.cart) = SyntaxError

\* C2: a place-order whose cart field is not valid JSON is answered with
\* HTTP 400, persists no order and sends no email.
C2_MalformedCartIsClientError ==
  \A r \in Reqs :
    Done(r, "placeOrder") /\ MalformedCart(reqs[r].body) =>
      /\ reqs[r].res.status = 400
      /\ ~reqs[r].saved
      /\ reqs[r].userMail = "none"
      /\ reqs[r].ownerMail = "none"

\* C3: once the order document is saved, place-order answers
\* {success: true, orderId} with the order persisted, whatever the outcome of
\* the two email sends; the owner email is attempted whenever the cart can be
\* rendered, whether the customer email was sent or failed.
C3_EmailOutcomeDoesNotFailOrder ==
  \A r \in Reqs :
    reqs[r].pc \in {"userMail", "ownerMail", "done"}
    /\ reqs[r].op = "placeOrder" /\ reqs[r].saved =>
      /\ reqs[r].order._id \in DOMAIN orders
      /\ orders[reqs[r].order._id] = reqs[r].order
      /\ reqs[r].pc = "done" =>
           /\ reqs[r].res = [status |-> 200, success |-> TRUE,
                             orderId |-> reqs[r].order._id]
           /\ reqs[r].ownerMail # "none"
                <=> Mappable(OrderData(reqs[r].body).cart)

\* C3 witness: both emails failed and the order is placed
C3_Witness ==
  \E r \in Reqs :
    /\ Done(r, "placeOrder")
    /\ reqs[r].userMail = "failed"
    /\ reqs[r].ownerMail = "failed"
    /\ reqs[r].res.success
    /\ reqs[r].res.orderId \in DOMAIN orders

\* C4: a contact request with name, email and message present gets the
\* response of a successful send whether the email send succeeds or fails.
C4_ContactResponseIgnoresSendFailure ==
  \A r \in Reqs :
    /\ Done(r, "contact")
    /\ ~Missing(reqs[r].body, "name")
    /\ ~Missing(reqs[r].body, "email")
    /\ ~Missing(reqs[r].body, "message")
    => reqs[r].res = [status |-> 200, success |-> TRUE]

\* a place-order body whose cart is the JSON text of a sequence and whose
\* total is a decimal numeral
ValidPlaceOrder(body) ==
  /\ "cart" \in DOMAIN body
  /\ JSONParse(body.cart).type = "array"
  /\ "total" \in DOMAIN body
  /\ body.total # <<>>
  /\ \A i \in 1..Len(body.total) : IsDigit(body.total[i])

\* the stored order holds the submitted contact/delivery fields, the cart
\* (equal after the JSON round trip) and the total as supplied
HoldsSubmitted(order, body) ==
  /\ \A f \in ContactFields :
       IF f \in DOMAIN body THEN f \in DOMAIN order /\ order[f] = body[f]
       ELSE f \notin DOMAIN order
  /\ JSONStringify(order.cart) = body.cart
  /\ NumberToString(order.total) = body.total

PlacedOrderIsStored ==
  \A r \in Reqs :
    Done(r, "placeOrder") /\ ValidPlaceOrder(reqs[r].body) /\ reqs[r].saved =>
      /\ reqs[r].res.success
      /\ reqs[r].res.orderId \in Ids
      /\ reqs[r].res.orderId \in DOMAIN orders
      /\ HoldsSubmitted(orders[reqs[r].res.orderId], reqs[r].body)
      /\ orders[reqs[r].res.orderId].status = "pending"

GetOrderReturnsStored ==
  \A r \in Reqs :
    Done(r, "getOrder") /\ reqs[r].lookup = "doc" =>
      /\ reqs[r].res.success
      /\ reqs[r].id \in DOMAIN orders
      /\ reqs[r].res.order = orders[reqs[r].id]

\* a stored order changes only by a delete or a status update of that order
OrderChangesOnlyByDeleteOrStatus ==
  \A id \in DOMAIN orders :
    id \notin DOMAIN orders' \/ orders'[id] # orders[id] =>
      \E r \in Reqs :
        \/ DeleteOrder(r, id)
        \/ \E body \in StatusBodies : UpdateOrderStatus(r, id, body)

\* C9: a valid place-order that the store accepts answers with the order's
\* identifier, the document stored under it holds the submitted fields with
\* status "pending", a get-by-id returns the stored document, and only a
\* delete or a status update changes a stored order.
C9_PlaceThenGetRoundTrip ==
  [][/\ PlacedOrderIsStored'
     /\ GetOrderReturnsStored'
     /\ OrderChangesOnlyByDeleteOrStatus]_vars

\* C9 witness: a get-by-id returned a placed order as submitted
C9_Witness ==
  \E r \in Reqs :
    /\ Done(r, "getOrder")
    /\ reqs[r].lookup = "doc"
    /\ JSONStringify(reqs[r].res.order.cart) = CartOfTwo
    /\ NumberToString(reqs[r].res.order.total) = <<"8", "5">>
    /\ reqs[r].res.order.fullName = "Asha"
    /\ reqs[r].res.order.status = "pending"

ByIdOps ==
  {"getOrder", "deleteOrder", "updateOrderStatus", "getProduct",
   "updateProduct", "deleteProduct", "toggleHold"}

\* request r finishes in this step
Finishes(r) == reqs[r] # reqs'[r] /\ reqs'[r].pc = "done"

\* C1: a by-id operation whose identifier resolves to no stored document
\* answers HTTP 404 with success=false and leaves the store unchanged.
C1_UnresolvedIdIsNotFound ==
  [][\A r \in Reqs :
       Finishes(r) /\ reqs'[r].op \in ByIdOps /\ reqs'[r].lookup = "null" =>
         /\ reqs'[r].res.status = 404
         /\ ~reqs'[r].res.success
         /\ UNCHANGED store]_vars

\* C5: a create-product without name or without price answers HTTP 400 and
\* leaves the stored products as they were.
C5_CreateWithoutNameOrPriceRejected ==
  [][\A r \in Reqs :
       /\ Finishes(r)
       /\ reqs'[r].op = "createProduct"
       /\ "name" \notin DOMAIN reqs'[r].body
          \/ "price" \notin DOMAIN reqs'[r].body
       => /\ reqs'[r].res.status = 400
          /\ ~reqs'[r].res.success
          /\ products' = products]_vars

\* C5 witness: a create-product without price was rejected while a product
\* is stored
C5_Witness ==
  \E r \in Reqs :
    /\ Done(r, "createProduct")
    /\ "price" \notin DOMAIN reqs[r].body
    /\ reqs[r].res.status = 400
    /\ products # <<>>

\* toggle-hold requests r1 and r2 on product id have both completed with
\* success and no other request has addressed the product
TwoTogglesDone(r1, r2, id) ==
  /\ r1 # r2
  /\ Done(r1, "toggleHold") /\ Done(r2, "toggleHold")
  /\ reqs[r1].id = id /\ reqs[r2].id = id
  /\ reqs[r1].res.success /\ reqs[r2].res.success
  /\ \A r \in Reqs \ {r1, r2} : reqs[r].pc = "idle" \/ reqs[r].id # id

\* C6: after two toggle-hold requests on a product have both completed, in
\* any interleaving, the stored flag equals its value before the first
\* toggle, and each response carries the value its request stored.
C6_TwoTogglesRestore ==
  \A id \in Ids : \A r1, r2 \in Reqs :
    TwoTogglesDone(r1, r2, id) =>
      /\ products[id].available = ToggleProducts[id].available
      /\ reqs[r1].res.available = reqs[r1].p.available
      /\ reqs[r2].res.available = reqs[r2].p.available

\* request r2 read the product after request r1 had written it: the value it
\* loaded is the value r1 stored
ReadAfterWrite(r1, r2) == reqs[r2].read = reqs[r1].p.available

\* C6 amended: after two toggle-hold requests on a product have both
\* completed without overlapping (one read the product after the other had
\* written it), the stored flag equals its value before the first toggle;
\* in every interleaving the value a toggle stores is the value its response
\* carries.
C6_SequentialTogglesRestore ==
  [][/\ \A id \in Ids : \A r1, r2 \in Reqs :
          TwoTogglesDone(r1, r2, id)' /\ ReadAfterWrite(r1, r2)' =>
            products'[id].available = ToggleProducts[id].available
     /\ \A r \in Reqs :
          Finishes(r) /\ reqs'[r].op = "toggleHold" /\ reqs'[r].res.success =>
            reqs'[r].res.available = products'[reqs'[r].id].available]_vars

\* C6 witness: two toggles of product 1, the second after the first, left it
\* available as before
C6_Witness ==
  \E r1, r2 \in Reqs :
    /\ TwoTogglesDone(r1, r2, 1)
    /\ ReadAfterWrite(r1, r2)
    /\ ~reqs[r1].res.available
    /\ reqs[r2].res.available
    /\ products[1].available

\* request r performs its findByIdAndUpdate in this step
Writes(r) == reqs[r].pc = "write" /\ reqs'[r].pc = "done"

\* the stored fields a supplied body field or image sets
FieldsOf(supplied) ==
  (supplied \ {"image"})
  \cup (IF "image" \in supplied THEN {"imageUrl", "imagePublicId"} ELSE {})

\* the subset of {name, description, price, category, options, available,
\* image} that the request in slot r supplies
Supplied(r) ==
  ((DOMAIN reqs[r].body) \cap DOMAIN UpdateBody)
  \cup (IF reqs[r].hasFile THEN {"image"} ELSE {})

\* C7: a product update leaves every stored field outside the supplied
\* subset (createdAt and the identifier included) as it was, and supplied
\* options replace the prior sequence.
C7_UpdateChangesOnlySupplied ==
  [][\A r \in Reqs :
       Writes(r) /\ reqs[r].id \in DOMAIN products =>
         LET id == reqs[r].id
             before == products[id]
         IN /\ id \in DOMAIN products'
            /\ \A f \in (DOMAIN before) \ FieldsOf(Supplied(r)) :
                 f \in DOMAIN products'[id] /\ products'[id][f] = before[f]
            /\ "options" \in Supplied(r) /\ reqs'[r].res.success =>
                 products'[id].options = <<<<"plain">>>>]_vars

\* C7 witness: an update of the price alone took effect and the other fields
\* are those of the creation
C7_Witness ==
  \E r \in Reqs :
    /\ Done(r, "updateProduct")
    /\ reqs[r].res.success
    /\ ~reqs[r].hasFile
    /\ products[1].price = 95
    /\ products[1].name = "Croissant"
    /\ products[1].description = "Flaky"
    /\ products[1].category = "pastry"
    /\ products[1].options = <<<<"butter">>, <<"chocolate">>>>
    /\ products[1].available
    /\ products[1].imagePublicId = <<"image", 0>>

\* C8: an update that supplies a new image on a product with a stored image
\* issues exactly one deletion call, for the handle the product referenced
\* before the update; an update that supplies no image issues none.
C8_OneDeletionCallForOldImage ==
  [][\A r \in Reqs :
       reqs'[r] # reqs[r] /\ reqs'[r].op = "updateProduct" =>
         IF reqs[r].pc = "find" /\ reqs'[r].pc = "write"
         THEN LET old == products[reqs[r].id]
              IN IF reqs[r].hasFile /\ "imagePublicId" \in DOMAIN old
                 THEN /\ reqs'[r].destroys = <<old.imagePublicId>>
                      /\ destroyCalls' = destroyCalls \cup {old.imagePublicId}
                 ELSE /\ reqs'[r].destroys = <<>>
                      /\ destroyCalls' = destroyCalls
         ELSE IF Writes(r)
         THEN /\ destroyCalls' = destroyCalls
              /\ reqs[r].id \in DOMAIN products
              /\ IF reqs[r].hasFile
                    /\ "imagePublicId" \in DOMAIN products[reqs[r].id]
                 THEN reqs'[r].destroys =
                        <<products[reqs[r].id].imagePublicId>>
                 ELSE reqs'[r].destroys = <<>>
         ELSE /\ reqs'[r].destroys = <<>>
              /\ destroyCalls' = destroyCalls]_vars

\* C8 witness: an update replaced the image uploaded at clock 0 by one
\* uploaded at clock 1 and issued the deletion call for the old handle
C8_Witness ==
  \E r \in Reqs :
    /\ Done(r, "updateProduct")
    /\ reqs[r].hasFile
    /\ reqs[r].res.success
    /\ reqs[r].destroys = <<<<"image", 0>>>>
    /\ destroyCalls = {<<"image", 0>>}
    /\ products[1].imagePublicId = <<"image", 1>>

\* C10: any two uploads receive distinct handles, no two stored products
\* reference the same handle, and no stored product references a handle a
\* deletion call was issued for.
C10_HandleIdentifiesOneAsset ==
  /\ \A h \in Handles : uploads[h] <= 1
  /\ \A i, j \in DOMAIN products :
       /\ i # j
       /\ "imagePublicId" \in DOMAIN products[i]
       /\ "imagePublicId" \in DOMAIN products[j]
       => products[i].imagePublicId # products[j].imagePublicId
  /\ \A i \in DOMAIN products :
       "imagePublicId" \in DOMAIN products[i] =>
         products[i].imagePublicId \notin destroyCalls

\* no request is between its first and its last step
Quiescent == \A r \in Reqs : reqs[r].pc \in {"idle", "done"}

\* the asset handles the stored documents reference
Referenced ==
  {products[i].imagePublicId :
     i \in {j \in DOMAIN products : "imagePublicId" \in DOMAIN products[j]}}
  \cup {orders[i].screenshotPublicId :
          i \in {j \in DOMAIN orders : "screenshotPublicId" \in DOMAIN orders[j]}}

\* C11: no stored asset is orphaned: when no request is in flight, every
\* handle an asset was uploaded under and no deletion call was issued for is
\* referenced by a stored order or product document, also after a request
\* whose upload completed and whose handler then rejected or failed.
C11_NoOrphanedAsset ==
  Quiescent =>
    \A h \in Handles :
      (uploads[h] > 0 /\ h \notin destroyCalls) => h \in Referenced

\* C12: no stored document keeps a reference to a deleted asset: when no
\* request is in flight, no product or order document references a handle a
\* deletion call was issued for, also after a product update whose document
\* write failed.
C12_NoReferenceToDeletedAsset ==
  Quiescent => Referenced \cap destroyCalls = {}

\* C13: a product update that responds with success=true returns the updated
\* product document, never null, and that document is the stored one when the
\* write takes effect; an update whose product was deleted between its
\* findById and its findByIdAndUpdate reports not-found.
C13_UpdateSuccessReturnsStoredProduct ==
  [][\A r \in Reqs :
       (reqs[r].pc = "write" /\ reqs'[r].pc = "done") =>
         LET id == reqs[r].id
             res == reqs'[r].res
         IN /\ res.success =>
                 /\ res.product # Null
                 /\ id \in DOMAIN products'
                 /\ products'[id] = res.product
            /\ id \notin DOMAIN products => res.status = 404]_vars

====
